---- MODULE Spec2Model ----
(***************************************************************************)
(* Model of the pixel classification engine of RMD_Analyzer               *)
(* (src/types.ts: rgbToHsv and analyzeImagePixelData).                     *)
(*                                                                         *)
(* JavaScript numbers are IEEE-754 binary64.  The Warm rule compares the   *)
(* results of divisions and subtractions of such numbers with 75, 0.55 and *)
(* 0.35, so rgbToHsv is modelled with correctly rounded binary64           *)
(* arithmetic (round to nearest, ties to even), not with rationals.        *)
(***************************************************************************)
EXTENDS Integers, Sequences, FiniteSets

(***************************************************************************)
(* Wide naturals: <<l0, l1, l2>> stands for l0 + l1*Limb + l2*Limb^2, each *)
(* limb in 0..Limb-1.  They carry the 53-bit significands of binary64.     *)
(***************************************************************************)
Limb == 2 ^ 24

WZero == <<0, 0, 0>>

WCarry(c0, c1, c2) ==
    LET t1 == c1 + (c0 \div Limb)
    IN  <<c0 % Limb, t1 % Limb, c2 + (t1 \div Limb)>>

WAdd(a, b) == WCarry(a[1] + b[1], a[2] + b[2], a[3] + b[3])

WSub(a, b) == WCarry(a[1] - b[1], a[2] - b[2], a[3] - b[3])

WMulSmall(a, k) == WCarry(a[1] * k, a[2] * k, a[3] * k)

WShl1(a) == WMulSmall(a, 2)

WShr1(a) ==
    <<(a[1] + (a[2] % 2) * Limb) \div 2, (a[2] + (a[3] % 2) * Limb) \div 2, a[3] \div 2>>

WLess(a, b) ==
    \/ a[3] < b[3]
    \/ a[3] = b[3] /\ a[2] < b[2]
    \/ a[3] = b[3] /\ a[2] = b[2] /\ a[1] < b[1]

WOdd(a) == a[1] % 2 = 1

RECURSIVE WShl(_, _)
WShl(a, k) == IF k = 0 THEN a ELSE WShl(WShl1(a), k - 1)

\* 2^52 and 2^53: a normalised significand m satisfies W2p52 <= m < W2p53
W2p52 == <<0, 0, 16>>
W2p53 == <<0, 0, 32>>

(***************************************************************************)
(* binary64 values.  [nan |-> TRUE] is NaN; otherwise the value is         *)
(* (neg ? -1 : 1) * m * 2^e with m = 0 or W2p52 <= m < W2p53.              *)
(* The magnitudes rgbToHsv meets lie between 2^-9 and 2^9, so neither      *)
(* overflow, subnormals nor infinities arise.                              *)
(***************************************************************************)
FNaN == [nan |-> TRUE, neg |-> FALSE, m |-> WZero, e |-> 0]

FZero == [nan |-> FALSE, neg |-> FALSE, m |-> WZero, e |-> 0]

\* Round the exact value x * 2^e (+ a fraction below one unit of x, told by
\* guard g and sticky s) to 53 significant bits, ties to even.  A value below
\* 2^52 is exact (callers pass g = 0, s = FALSE) and is only shifted up.
RECURSIVE FRound(_, _, _, _, _)
FRound(neg, x, e, g, s) ==
    IF x = WZero THEN FZero
    ELSE IF ~WLess(x, W2p53) THEN FRound(neg, WShr1(x), e + 1, x[1] % 2, s \/ g = 1)
    ELSE IF WLess(x, W2p52) THEN FRound(neg, WShl1(x), e - 1, 0, FALSE)
    ELSE IF g = 1 /\ (s \/ WOdd(x))
         THEN LET y == WAdd(x, <<1, 0, 0>>)
              IN  IF y = W2p53 THEN [nan |-> FALSE, neg |-> neg, m |-> W2p52, e |-> e + 1]
                  ELSE [nan |-> FALSE, neg |-> neg, m |-> y, e |-> e]
         ELSE [nan |-> FALSE, neg |-> neg, m |-> x, e |-> e]

\* An integer 0 <= n < Limb is exactly representable: n = (n * Limb^2) * 2^-48.
FromInt(n) == FRound(FALSE, <<0, 0, n>>, -48, 0, FALSE)

FNeg(a) == IF a.nan \/ a.m = WZero THEN a ELSE [a EXCEPT !.neg = ~a.neg]

\* |a| < |b| for numbers
FMagLess(a, b) ==
    IF a.m = WZero THEN b.m # WZero
    ELSE IF b.m = WZero THEN FALSE
    ELSE a.e < b.e \/ (a.e = b.e /\ WLess(a.m, b.m))

\* a < b, a <= b, a = b as JavaScript's <, <=, ===: FALSE when either is NaN
FLess(a, b) ==
    /\ ~a.nan /\ ~b.nan
    /\ IF a.neg = b.neg
       THEN IF a.neg THEN FMagLess(b, a) ELSE FMagLess(a, b)
       ELSE a.neg

FEq(a, b) == ~a.nan /\ ~b.nan /\ a = b

FLeq(a, b) == FLess(a, b) \/ FEq(a, b)

FGeq(a, b) == FLeq(b, a)

\* a + b, correctly rounded.  The exponents of the operands differ by less
\* than 19 in every sum rgbToHsv forms, so the exact sum fits three limbs.
FAdd(a, b) ==
    IF a.nan \/ b.nan THEN FNaN
    ELSE IF a.m = WZero THEN b
    ELSE IF b.m = WZero THEN a
    ELSE LET e  == IF a.e < b.e THEN a.e ELSE b.e
             xa == WShl(a.m, a.e - e)
             xb == WShl(b.m, b.e - e)
         IN  IF a.neg = b.neg THEN FRound(a.neg, WAdd(xa, xb), e, 0, FALSE)
             ELSE IF WLess(xa, xb) THEN FRound(b.neg, WSub(xb, xa), e, 0, FALSE)
             ELSE FRound(a.neg, WSub(xa, xb), e, 0, FALSE)

FSub(a, b) == FAdd(a, FNeg(b))

\* The leading bits of a wide natural: x \div 2^32
WTop(x) == x[3] * 65536 + (x[2] \div 256)

\* Long division in base 64.  rem < d on entry; each step appends the next
\* digit t = (64 * rem) \div d to q.  The digit is estimated from the
\* leading bits of both (never above t, at most two below) and corrected.
\* After n steps the remainder decides the sticky bit.
RECURSIVE FDivDigits(_, _, _, _, _, _)
FDivDigits(neg, q, rem, d, e, n) ==
    IF n = 0 THEN FRound(neg, q, e, 0, rem # WZero)
    ELSE LET r64 == WMulSmall(rem, 64)
             t0  == WTop(r64) \div (WTop(d) + 1)
             r0  == WSub(r64, WMulSmall(d, t0))
             c1  == ~WLess(r0, d)
             r1  == IF c1 THEN WSub(r0, d) ELSE r0
             c2  == ~WLess(r1, d)
             r2  == IF c2 THEN WSub(r1, d) ELSE r1
             t   == t0 + (IF c1 THEN 1 ELSE 0) + (IF c2 THEN 1 ELSE 0)
         IN  FDivDigits(neg, WAdd(WMulSmall(q, 64), <<t, 0, 0>>), r2, d, e - 6, n - 1)

\* a / b, correctly rounded: the integer bit of a.m / b.m, then nine
\* base-64 digits (54 bits), rounded to 53 bits.  0/0 is NaN; no caller
\* divides a nonzero number by zero.
FDiv(a, b) ==
    IF a.nan \/ b.nan THEN FNaN
    ELSE IF b.m = WZero THEN FNaN
    ELSE IF a.m = WZero THEN FZero
    ELSE IF WLess(a.m, b.m) THEN FDivDigits(a.neg # b.neg, WZero, a.m, b.m, a.e - b.e, 9)
    ELSE FDivDigits(a.neg # b.neg, <<1, 0, 0>>, WSub(a.m, b.m), b.m, a.e - b.e, 9)

\* a * 360, correctly rounded (360 = 45 * 2^3)
FMul360(a) ==
    IF a.nan THEN FNaN ELSE FRound(a.neg, WMulSmall(a.m, 45), a.e + 3, 0, FALSE)

(***************************************************************************)
(* src/types.ts, rgbToHsv (lines 39-67)                                    *)
(***************************************************************************)
\* What data[k] yields when k is past the end of the buffer
undefined == -1

\* ToNumber of a byte read from the buffer: undefined becomes NaN
ToNumber(x) == IF x = undefined THEN FNaN ELSE FromInt(x)

\* Math.max and Math.min: NaN when any argument is NaN
MathMax(a, b, c) ==
    IF a.nan \/ b.nan \/ c.nan THEN FNaN
    ELSE LET ab == IF FLess(a, b) THEN b ELSE a
         IN  IF FLess(ab, c) THEN c ELSE ab

MathMin(a, b, c) ==
    IF a.nan \/ b.nan \/ c.nan THEN FNaN
    ELSE LET ab == IF FLess(b, a) THEN b ELSE a
         IN  IF FLess(c, ab) THEN c ELSE ab

\* The numeric literals of rgbToHsv
F255 == FromInt(255)

F6 == FromInt(6)

F2 == FromInt(2)

F4 == FromInt(4)

\* The switch of lines 52-62 followed by h /= 6; r, g, b are the
\* normalised channels, d = max - min.
HueSwitch(r, g, b, max, d) ==
    LET h == IF FEq(max, r)
                  THEN FAdd(FDiv(FSub(g, b), d), IF FLess(g, b) THEN F6 ELSE FZero)
             ELSE IF FEq(max, g) THEN FAdd(FDiv(FSub(b, r), d), F2)
             ELSE IF FEq(max, b) THEN FAdd(FDiv(FSub(r, g), d), F4)
             ELSE FZero
    IN  FDiv(h, F6)

rgbToHsv(r0, g0, b0) ==
    LET r   == FDiv(ToNumber(r0), F255)
        g   == FDiv(ToNumber(g0), F255)
        b   == FDiv(ToNumber(b0), F255)
        max == MathMax(r, g, b)
        min == MathMin(r, g, b)
        v   == max
        d   == FSub(max, min)
        s   == IF FEq(max, FZero) THEN FZero ELSE FDiv(d, max)
        h   == IF ~FEq(max, min) THEN HueSwitch(r, g, b, max, d) ELSE FZero
    IN  [h |-> FMul360(h), s |-> s, v |-> v]

(***************************************************************************)
(* src/types.ts, analyzeImagePixelData (lines 69-211)                      *)
(***************************************************************************)
VARIABLES
    width, height, data,    \* imageData: data is the flat RGBA byte buffer
    pc,                     \* "loop": in the pixel loop; "returned": the result is built
    i,                      \* the loop index into data (0-based, as in the code)
    excludedPixels, countWarm, countDarkGreen, countBlue, countNeonGreen,
    countGrey, countOther,  \* the seven running counters
    result,                 \* <<>> until the call returns, then <<AnalysisResult>>
    counted,                \* history: the <<r, g, b, a, counter>> of every iteration so far
    earlier,                \* history: the results of the earlier calls on this imageData
    hsvArgs, hsvResult,     \* a call of rgbToHsv on its own: <<r, g, b>> and <<its return>>
    selectedImage,          \* App state: <<>> for null, else <<the image (its URL)>>
    isAnalyzing, isProcessingPdf, isGeminiThinking,
    analysisResult,         \* App state: <<>> for null, else <<AnalysisResult>>
    geminiInsight,          \* App state: <<>> for null, else <<the insight>>
    runs,                   \* the runAnalysis calls so far: the image and the stage of each
    urls,                   \* the number of image URLs created so far
    apiKey                  \* whether process.env.API_KEY is set (geminiService.ts line 4)

\* The variables of the App component and of its pending callbacks
app ==
    <<selectedImage, isAnalyzing, isProcessingPdf, isGeminiThinking, analysisResult,
      geminiInsight, runs, urls, apiKey>>

\* The variables that no step of analyzeImagePixelData reads or writes
others == <<hsvArgs, hsvResult, app>>

vars == <<width, height, data, pc, i, excludedPixels, countWarm, countDarkGreen,
          countBlue, countNeonGreen, countGrey, countOther, result, counted, earlier,
          others>>

\* data[k], 0-based; a typed array yields undefined past its end
At(k) == IF k < Len(data) THEN data[k + 1] ELSE undefined

\* x < n and x > n in JavaScript for a byte or undefined x: undefined compares false
JsLess(x, n) == x # undefined /\ x < n

JsGreater(x, n) == x # undefined /\ x > n

\* The thresholds of the Warm rule (line 144) as binary64 values
F75 == FromInt(75)

F055 == FDiv(FromInt(55), FromInt(100))

F035 == FDiv(FromInt(35), FromInt(100))

\* IsWarm with the hue taken around the circle: within 75 degrees of red on
\* either side
IsWarmCircular(hsv) ==
    /\ FLeq(hsv.h, F75) \/ FGeq(hsv.h, FromInt(285))
    /\ FGeq(hsv.s, F055)
    /\ FGeq(hsv.v, F035)

\* Line 144: h >= 0 && h <= 75 && s >= 0.55 && v >= 0.35
IsWarm(hsv) ==
    /\ FGeq(hsv.h, FZero)
    /\ FLeq(hsv.h, F75)
    /\ FGeq(hsv.s, F055)
    /\ FGeq(hsv.v, F035)

\* Lines 104-109
isMagenta(r, g, b) == r = 255 /\ g = 0 /\ b = 255

\* isBorder with its bounds on r and b inclusive
isBorderInclusive(r, g, b) == r >= 150 /\ b >= 150 /\ JsLess(g, 60)

isBorder(r, g, b) == JsGreater(r, 150) /\ JsGreater(b, 150) /\ JsLess(g, 60)

\* Classify without its fallback: a pixel that matches no rule is not counted
ClassifyNoFallback(r, g, b, a) ==
    IF JsLess(a, 255) THEN "excludedPixels"
    ELSE IF isMagenta(r, g, b) \/ isBorder(r, g, b) THEN "excludedPixels"
    ELSE IF r = 0 /\ g = 146 /\ b = 69 THEN "countDarkGreen"
    ELSE IF r = 0 /\ g = 0 /\ b = 255 THEN "countBlue"
    ELSE IF r = 0 /\ g = 255 /\ b = 0 THEN "countNeonGreen"
    ELSE IF r = 77 /\ g = 77 /\ b = 77 THEN "countGrey"
    ELSE IF IsWarm(rgbToHsv(r, g, b)) THEN "countWarm"
    ELSE "none"

\* Classify with the opacity test after the exact colours instead of first
ClassifyAlphaLate(r, g, b, a) ==
    IF r = 0 /\ g = 146 /\ b = 69 THEN "countDarkGreen"
    ELSE IF r = 0 /\ g = 0 /\ b = 255 THEN "countBlue"
    ELSE IF r = 0 /\ g = 255 /\ b = 0 THEN "countNeonGreen"
    ELSE IF r = 77 /\ g = 77 /\ b = 77 THEN "countGrey"
    ELSE IF JsLess(a, 255) THEN "excludedPixels"
    ELSE IF isMagenta(r, g, b) \/ isBorder(r, g, b) THEN "excludedPixels"
    ELSE IF IsWarm(rgbToHsv(r, g, b)) THEN "countWarm"
    ELSE "countOther"

\* Classify with the Blue and Neon Green counters exchanged
ClassifySwapped(r, g, b, a) ==
    IF JsLess(a, 255) THEN "excludedPixels"
    ELSE IF isMagenta(r, g, b) \/ isBorder(r, g, b) THEN "excludedPixels"
    ELSE IF r = 0 /\ g = 146 /\ b = 69 THEN "countDarkGreen"
    ELSE IF r = 0 /\ g = 0 /\ b = 255 THEN "countNeonGreen"
    ELSE IF r = 0 /\ g = 255 /\ b = 0 THEN "countBlue"
    ELSE IF r = 77 /\ g = 77 /\ b = 77 THEN "countGrey"
    ELSE IF IsWarm(rgbToHsv(r, g, b)) THEN "countWarm"
    ELSE "countOther"

\* The body of the pixel loop (lines 92-150): the counter that the
\* iteration reading r, g, b, a increments.
Classify(r, g, b, a) ==
    IF JsLess(a, 255) THEN "excludedPixels"
    ELSE IF isMagenta(r, g, b) \/ isBorder(r, g, b) THEN "excludedPixels"
    ELSE IF r = 0 /\ g = 146 /\ b = 69 THEN "countDarkGreen"
    ELSE IF r = 0 /\ g = 0 /\ b = 255 THEN "countBlue"
    ELSE IF r = 0 /\ g = 255 /\ b = 0 THEN "countNeonGreen"
    ELSE IF r = 77 /\ g = 77 /\ b = 77 THEN "countGrey"
    ELSE IF IsWarm(rgbToHsv(r, g, b)) THEN "countWarm"
    ELSE "countOther"

\* counter++ when the iteration chose it
Incr(chosen, name, value) == IF chosen = name THEN value + 1 ELSE value

\* LoopIteration reading the alpha byte at data[3] instead of data[i + 3]
LoopIterationFirstAlpha ==
    /\ pc = "loop"
    /\ i < Len(data)
    /\ \E c \in {Classify(At(i), At(i + 1), At(i + 2), At(3))} :
           /\ excludedPixels' = Incr(c, "excludedPixels", excludedPixels)
           /\ countDarkGreen' = Incr(c, "countDarkGreen", countDarkGreen)
           /\ countBlue' = Incr(c, "countBlue", countBlue)
           /\ countNeonGreen' = Incr(c, "countNeonGreen", countNeonGreen)
           /\ countGrey' = Incr(c, "countGrey", countGrey)
           /\ countWarm' = Incr(c, "countWarm", countWarm)
           /\ countOther' = Incr(c, "countOther", countOther)
           /\ counted' = counted \cup {<<At(i), At(i + 1), At(i + 2), At(i + 3), c>>}
    /\ i' = i + 4
    /\ UNCHANGED <<width, height, data, pc, result, earlier, others>>

\* One iteration of the for loop of line 91, with its i += 4
LoopIteration ==
    /\ pc = "loop"
    /\ i < Len(data)
    /\ LET r == At(i)
           g == At(i + 1)
           b == At(i + 2)
           a == At(i + 3)
       IN  \E c \in {Classify(r, g, b, a)} :
           /\ excludedPixels' = Incr(c, "excludedPixels", excludedPixels)
           /\ countDarkGreen' = Incr(c, "countDarkGreen", countDarkGreen)
           /\ countBlue' = Incr(c, "countBlue", countBlue)
           /\ countNeonGreen' = Incr(c, "countNeonGreen", countNeonGreen)
           /\ countGrey' = Incr(c, "countGrey", countGrey)
           /\ countWarm' = Incr(c, "countWarm", countWarm)
           /\ countOther' = Incr(c, "countOther", countOther)
           /\ counted' = counted \cup {<<At(i), At(i + 1), At(i + 2), At(i + 3), c>>}
    /\ i' = i + 4
    /\ UNCHANGED <<width, height, data, pc, result, earlier, others>>

\* An integer as a binary64 value
ToFloat(n) == IF n < 0 THEN FNeg(FromInt(-n)) ELSE FromInt(n)

\* a * 100, correctly rounded (100 = 25 * 2^2)
FMul100(a) ==
    IF a.nan THEN FNaN ELSE FRound(a.neg, WMulSmall(a.m, 25), a.e + 2, 0, FALSE)

\* Percentage without the factor 100
PercentageFraction(count, safeTotal) == FDiv(ToFloat(count), ToFloat(safeTotal))

\* (count / safeTotal) * 100 of lines 164-199
Percentage(count, safeTotal) == FMul100(FDiv(ToFloat(count), ToFloat(safeTotal)))

\* One entry of the categories array
Category(id, name, color, count, safeTotal) ==
    [id |-> id, name |-> name, color |-> color, count |-> count,
     percentage |-> Percentage(count, safeTotal)]

\* Categories in the order the loop tests the rules, Warm after the exact colours
CategoriesRuleOrder(safeTotal) ==
    << Category("dark_green", "Dark Green (#009245)", "#009245", countDarkGreen, safeTotal),
       Category("blue", "Blue (#0000ff)", "#0000ff", countBlue, safeTotal),
       Category("neon_green", "Neon Green (#00ff00)", "#00ff00", countNeonGreen, safeTotal),
       Category("grey", "Grey (#4d4d4d)", "#4d4d4d", countGrey, safeTotal),
       Category("warm", "Warm (Red/Orange/Yellow)", "#ed1c24", countWarm, safeTotal),
       Category("other", "Other / Unclassified", "#9CA3AF", countOther, safeTotal) >>

\* Lines 158-201
Categories(safeTotal) ==
    << Category("warm", "Warm (Red/Orange/Yellow)", "#ed1c24", countWarm, safeTotal),
       Category("dark_green", "Dark Green (#009245)", "#009245", countDarkGreen, safeTotal),
       Category("blue", "Blue (#0000ff)", "#0000ff", countBlue, safeTotal),
       Category("neon_green", "Neon Green (#00ff00)", "#00ff00", countNeonGreen, safeTotal),
       Category("grey", "Grey (#4d4d4d)", "#4d4d4d", countGrey, safeTotal),
       Category("other", "Other / Unclassified", "#9CA3AF", countOther, safeTotal) >>

\* Lines 153-210, once the loop condition i < data.length fails
Return ==
    /\ pc = "loop"
    /\ i >= Len(data)
    /\ LET totalPixels     == width * height
           processedPixels == totalPixels - excludedPixels
           safeTotal       == IF processedPixels = 0 THEN 1 ELSE processedPixels
       IN  result' = << [totalPixels |-> totalPixels,
                         processedPixels |-> processedPixels,
                         excludedPixels |-> excludedPixels,
                         categories |-> Categories(safeTotal),
                         width |-> width,
                         height |-> height] >>
    /\ pc' = "returned"
    /\ UNCHANGED <<width, height, data, i, excludedPixels, countWarm, countDarkGreen,
                   countBlue, countNeonGreen, countGrey, countOther, counted,
                   earlier, others>>

Next == LoopIteration \/ Return

\* The seven counters as lines 75-82 initialise them
NoCounts ==
    [excludedPixels |-> 0, countWarm |-> 0, countDarkGreen |-> 0, countBlue |-> 0,
     countNeonGreen |-> 0, countGrey |-> 0, countOther |-> 0]

\* buf[k], 0-based; undefined past the end of the buffer
ByteAt(buf, k) == IF k < Len(buf) THEN buf[k + 1] ELSE undefined

\* PixelLoop that carries a pixel over: a pixel equal to the one before it
\* in the buffer is not counted again
RECURSIVE PixelLoopRunLength(_, _, _)
PixelLoopRunLength(buf, k, cnt) ==
    IF k >= Len(buf) THEN cnt
    ELSE LET c == Classify(ByteAt(buf, k), ByteAt(buf, k + 1), ByteAt(buf, k + 2),
                           ByteAt(buf, k + 3))
             same == k >= 4 /\ \A j \in 0..3 : ByteAt(buf, k + j) = ByteAt(buf, k + j - 4)
         IN  PixelLoopRunLength(buf, k + 4,
                 IF same THEN cnt ELSE [cnt EXCEPT ![c] = @ + 1])

\* The for loop of lines 91-151 as a function of the buffer: the counters
\* after the iterations from index k on, started with the counters cnt
RECURSIVE PixelLoop(_, _, _)
PixelLoop(buf, k, cnt) ==
    IF k >= Len(buf) THEN cnt
    ELSE LET c == Classify(ByteAt(buf, k), ByteAt(buf, k + 1), ByteAt(buf, k + 2),
                           ByteAt(buf, k + 3))
         IN  PixelLoop(buf, k + 4, [cnt EXCEPT ![c] = @ + 1])

(***************************************************************************)
(* The calls that are checked                                              *)
(***************************************************************************)
\* The largest number of pixels of a multi-pixel bitmap
MaxPixels == 3

\* The channel values of the single-pixel bitmaps: the bytes the rules name
\* (0, 69, 77, 146, 255), both sides of the border thresholds (150, 151 and
\* 59, 60), the value threshold (0.35 lies between 89/255 and 90/255), and
\* channels whose saturation or hue falls exactly on 0.55 or 75 degrees
\* (100 with 45, 200 with 90; 69, 90, 6).
Channels == {0, 6, 10, 30, 45, 59, 60, 69, 77, 90, 100, 146, 150, 151, 200, 255}

Alphas == {0, 254, 255}

\* The pixels of the multi-pixel bitmaps: a translucent pixel, a border
\* pixel, and one pixel of each of Dark Green, Grey, Warm and Other
Palette ==
    { <<0, 146, 69, 128>>, <<200, 10, 200, 255>>, <<0, 146, 69, 255>>,
      <<77, 77, 77, 255>>, <<200, 30, 30, 255>>, <<10, 10, 10, 255>> }

\* The RGBA byte buffer of a sequence of pixels
Flatten(pixels) ==
    [k \in 1..(4 * Len(pixels)) |-> pixels[((k - 1) \div 4) + 1][((k - 1) % 4) + 1]]

\* The App as it is mounted (App.tsx lines 12-17), with nothing pending
Mounted ==
    /\ selectedImage = <<>>
    /\ isAnalyzing = FALSE
    /\ isProcessingPdf = FALSE
    /\ isGeminiThinking = FALSE
    /\ analysisResult = <<>>
    /\ geminiInsight = <<>>
    /\ runs = <<>>
    /\ urls = 0

\* The state on entry to the loop (lines 72-82)
Entry ==
    /\ pc = "loop"
    /\ i = 0
    /\ excludedPixels = 0
    /\ countWarm = 0
    /\ countDarkGreen = 0
    /\ countBlue = 0
    /\ countNeonGreen = 0
    /\ countGrey = 0
    /\ countOther = 0
    /\ result = <<>>
    /\ counted = {}
    /\ earlier = <<>>
    /\ hsvArgs = <<>>
    /\ hsvResult = <<>>
    /\ Mounted
    /\ apiKey = FALSE

\* A 1 x 1 ImageData holding any pixel of the grid
InitPixel ==
    /\ width = 1
    /\ height = 1
    /\ \E r \in Channels, g \in Channels, b \in Channels, a \in Alphas :
          data = <<r, g, b, a>>
    /\ Entry

\* An ImageData of up to MaxPixels palette pixels; as the browser builds
\* it, data.length = 4 * width * height
InitBitmap ==
    /\ width \in 0..MaxPixels
    /\ height \in 0..MaxPixels
    /\ width * height <= MaxPixels
    /\ \E pixels \in [1..(width * height) -> Palette] : data = Flatten(pixels)
    /\ Entry

Init == InitPixel \/ InitBitmap

Spec == Init /\ [][Next]_vars

\* The largest number of calls on one imageData
MaxCalls == 2

\* CallAgain with the counters kept from the call before, as if they were
\* declared outside the function
CallAgainKeepingCounters ==
    /\ pc = "returned"
    /\ Len(earlier) + 1 < MaxCalls
    /\ earlier' = Append(earlier, result[1])
    /\ pc' = "loop"
    /\ i' = 0
    /\ result' = <<>>
    /\ counted' = {}
    /\ UNCHANGED <<width, height, data, excludedPixels, countWarm, countDarkGreen,
                   countBlue, countNeonGreen, countGrey, countOther, others>>

\* A further call with the same imageData object: the locals are declared
\* and initialised anew (lines 72-82)
CallAgain ==
    /\ pc = "returned"
    /\ Len(earlier) + 1 < MaxCalls
    /\ earlier' = Append(earlier, result[1])
    /\ pc' = "loop"
    /\ i' = 0
    /\ excludedPixels' = 0
    /\ countWarm' = 0
    /\ countDarkGreen' = 0
    /\ countBlue' = 0
    /\ countNeonGreen' = 0
    /\ countGrey' = 0
    /\ countOther' = 0
    /\ result' = <<>>
    /\ counted' = {}
    /\ UNCHANGED <<width, height, data, others>>

NextRepeated == LoopIteration \/ Return \/ CallAgain

\* Up to MaxCalls calls in a row on each imageData
SpecRepeated == Init /\ [][NextRepeated]_vars

\* The state of analyzeImagePixelData when it is not being called
NoAnalysis ==
    /\ width = 0
    /\ height = 0
    /\ data = <<>>
    /\ pc = "idle"
    /\ i = 0
    /\ excludedPixels = 0
    /\ countWarm = 0
    /\ countDarkGreen = 0
    /\ countBlue = 0
    /\ countNeonGreen = 0
    /\ countGrey = 0
    /\ countOther = 0
    /\ result = <<>>
    /\ counted = {}
    /\ earlier = <<>>

\* The variables of analyzeImagePixelData
analysis ==
    <<width, height, data, pc, i, excludedPixels, countWarm, countDarkGreen, countBlue,
      countNeonGreen, countGrey, countOther, result, counted, earlier>>

\* The channel values rgbToHsv is called with on its own: those of the
\* pixel grid and, around them, the smallest and largest bytes, the
\* smallest differences (1, 2, 3) and the thirds and halves of 255
HsvChannels == Channels \cup {1, 2, 3, 85, 127, 128, 170, 252, 253, 254}

InitHsv ==
    /\ \E r \in HsvChannels, g \in HsvChannels, b \in HsvChannels : hsvArgs = <<r, g, b>>
    /\ hsvResult = <<>>
    /\ NoAnalysis
    /\ Mounted
    /\ apiKey = FALSE

\* rgbToHsvCall with the switch taken also when max = min (d = 0)
rgbToHsvCallUnguarded ==
    /\ hsvResult = <<>>
    /\ hsvArgs # <<>>
    /\ LET r   == FDiv(ToNumber(hsvArgs[1]), F255)
           g   == FDiv(ToNumber(hsvArgs[2]), F255)
           b   == FDiv(ToNumber(hsvArgs[3]), F255)
           max == MathMax(r, g, b)
           min == MathMin(r, g, b)
           d   == FSub(max, min)
           s   == IF FEq(max, FZero) THEN FZero ELSE FDiv(d, max)
       IN  hsvResult' = << [h |-> FMul360(HueSwitch(r, g, b, max, d)), s |-> s, v |-> max] >>
    /\ UNCHANGED <<hsvArgs, analysis, app>>

\* One call rgbToHsv(r, g, b) and its return (lines 39-67)
rgbToHsvCall ==
    /\ hsvResult = <<>>
    /\ hsvArgs # <<>>
    /\ hsvResult' = << rgbToHsv(hsvArgs[1], hsvArgs[2], hsvArgs[3]) >>
    /\ UNCHANGED <<hsvArgs, analysis, app>>

SpecHsv == InitHsv /\ [][rgbToHsvCall]_vars

\* The calls on the bitmaps of one row: every buffer of up to MaxPixels
\* palette pixels, once
InitRow == InitBitmap /\ height = 1

SpecRow == InitRow /\ [][Next]_vars

\* The bytes of a last, incomplete pixel: the first n bytes of the Warm
\* palette pixel
Partial(n) == SubSeq(<<200, 30, 30, 255>>, 1, n)

\* An argument that only has the shape of an ImageData: width, height and a
\* buffer of whole palette pixels and up to three more bytes, whose length
\* is not 4 * width * height.  The function's parameter type admits it
\* (line 70) and nothing in the function rejects it.
InitAnyBuffer ==
    /\ width \in 0..MaxPixels
    /\ height \in 0..MaxPixels
    /\ width * height <= MaxPixels
    /\ \E n \in 0..MaxPixels, t \in 0..3 :
          \E pixels \in [1..n -> Palette] : data = Flatten(pixels) \o Partial(t)
    /\ Len(data) # 4 * width * height
    /\ Entry

SpecAnyBuffer == InitAnyBuffer /\ [][Next]_vars

(***************************************************************************)
(* src/App.tsx, the App component (lines 11-108) with                      *)
(* src/services/geminiService.ts, getGeminiInsight (lines 7-46)            *)
(*                                                                         *)
(* Images are numbered in the order their URLs are created.  The stages of *)
(* a runAnalysis call: "loading" (img.onload is pending), "failed" (the    *)
(* image did not load; no handler is set for that), "noContext" (onload    *)
(* ran and getContext returned null), "timer" (the setTimeout callback is  *)
(* pending), "request" (the promise of getGeminiInsight is pending),       *)
(* "done".                                                                 *)
(***************************************************************************)
\* The largest number of image URLs created and of runAnalysis calls
MaxUploads == 2

MaxRuns == 3

\* analyzeImagePixelData(imageData) for the pixels of image u: a function
\* of the image alone
AnalysisOf(u) == [image |-> u]

\* The texts getGeminiInsight can return when a key is set: the text of the
\* response (line 41) or the message of the catch block (line 44)
Answers == {"response.text", "Unable to generate insight at this time."}

\* Lines 69-72 and 51-53: the new image is selected, result and insight are cleared
Select(u) ==
    /\ urls' = u
    /\ selectedImage' = <<u>>
    /\ analysisResult' = <<>>
    /\ geminiInsight' = <<>>

\* handleImageUpload with an image file (lines 63-75); the file dialog
\* opens from the upload button, which is disabled while a PDF is being
\* processed (lines 134-135)
handleImageUpload ==
    /\ ~isProcessingPdf
    /\ urls < MaxUploads
    /\ Select(urls + 1)
    /\ UNCHANGED <<isAnalyzing, isProcessingPdf, isGeminiThinking, runs, apiKey>>
    /\ UNCHANGED <<analysis, hsvArgs, hsvResult>>

\* handleImageUpload with a PDF file: processPdf up to its first await
\* (lines 66-67, 22-25)
processPdf ==
    /\ ~isProcessingPdf
    /\ isProcessingPdf' = TRUE
    /\ UNCHANGED <<selectedImage, isAnalyzing, isGeminiThinking, analysisResult,
                   geminiInsight, runs, urls, apiKey>>
    /\ UNCHANGED <<analysis, hsvArgs, hsvResult>>

\* The rest of processPdf, after its awaits (lines 26-60): the page was
\* rendered and becomes the selected image, or there was no 2D context or
\* an error was caught; finally isProcessingPdf is reset
processPdfSettled ==
    /\ isProcessingPdf
    /\ \/ urls < MaxUploads /\ Select(urls + 1)
       \/ UNCHANGED <<urls, selectedImage, analysisResult, geminiInsight>>
    /\ isProcessingPdf' = FALSE
    /\ UNCHANGED <<isAnalyzing, isGeminiThinking, runs, apiKey>>
    /\ UNCHANGED <<analysis, hsvArgs, hsvResult>>

\* runAnalysis (lines 77-83), from the Run Analysis button, which is shown
\* when an image is selected and disabled while isAnalyzing or
\* isProcessingPdf (lines 163-166)
runAnalysis ==
    /\ selectedImage # <<>>
    /\ ~isAnalyzing
    /\ ~isProcessingPdf
    /\ Len(runs) < MaxRuns
    /\ isAnalyzing' = TRUE
    /\ runs' = Append(runs, [image |-> selectedImage[1], stage |-> "loading"])
    /\ UNCHANGED <<selectedImage, isProcessingPdf, isGeminiThinking, analysisResult,
                   geminiInsight, urls, apiKey>>
    /\ UNCHANGED <<analysis, hsvArgs, hsvResult>>

\* A step of run k that changes only its stage
Stage(k, from, to) ==
    /\ k \in 1..Len(runs)
    /\ runs[k].stage = from
    /\ runs' = [runs EXCEPT ![k].stage = to]

\* img.onload of run k (lines 83-107): with a 2D context the pixels are
\* read and the timer is set; without one nothing is done
imgOnload(k) ==
    /\ \/ Stage(k, "loading", "timer")
       \/ Stage(k, "loading", "noContext")
    /\ UNCHANGED <<selectedImage, isAnalyzing, isProcessingPdf, isGeminiThinking,
                   analysisResult, geminiInsight, urls, apiKey>>
    /\ UNCHANGED <<analysis, hsvArgs, hsvResult>>

\* The image of run k fails to load: runAnalysis sets no onerror handler
\* (lines 81-83), so nothing runs
imgError(k) ==
    /\ Stage(k, "loading", "failed")
    /\ UNCHANGED <<selectedImage, isAnalyzing, isProcessingPdf, isGeminiThinking,
                   analysisResult, geminiInsight, urls, apiKey>>
    /\ UNCHANGED <<analysis, hsvArgs, hsvResult>>

\* The setTimeout callback of run k (lines 94-105).  Without an API key
\* getGeminiInsight returns at line 10 and its promise is already
\* fulfilled, so the then callback (lines 102-103) runs before any other
\* event; with a key the request is left pending.
timeoutCallback(k) ==
    /\ k \in 1..Len(runs)
    /\ runs[k].stage = "timer"
    /\ analysisResult' = <<AnalysisOf(runs[k].image)>>
    /\ isAnalyzing' = FALSE
    /\ IF apiKey
          THEN /\ Stage(k, "timer", "request")
               /\ isGeminiThinking' = TRUE
               /\ UNCHANGED geminiInsight
          ELSE /\ Stage(k, "timer", "done")
               /\ isGeminiThinking' = FALSE
               /\ geminiInsight' =
                     << [about |-> AnalysisOf(runs[k].image),
                         text |-> "Please configure your API_KEY to see Gemini insights."] >>
    /\ UNCHANGED <<selectedImage, isProcessingPdf, urls, apiKey>>
    /\ UNCHANGED <<analysis, hsvArgs, hsvResult>>

\* The promise of getGeminiInsight(result) of run k is fulfilled and the
\* then callback runs (lines 101-104)
thenCallback(k) ==
    /\ Stage(k, "request", "done")
    /\ \E text \in Answers :
          geminiInsight' = << [about |-> AnalysisOf(runs[k].image), text |-> text] >>
    /\ isGeminiThinking' = FALSE
    /\ UNCHANGED <<selectedImage, isAnalyzing, isProcessingPdf, analysisResult, urls, apiKey>>
    /\ UNCHANGED <<analysis, hsvArgs, hsvResult>>

InitApp ==
    /\ Mounted
    /\ apiKey \in BOOLEAN
    /\ NoAnalysis
    /\ hsvArgs = <<>>
    /\ hsvResult = <<>>

NextApp ==
    \/ handleImageUpload
    \/ processPdf
    \/ processPdfSettled
    \/ runAnalysis
    \/ \E k \in 1..MaxRuns : imgOnload(k)
    \/ \E k \in 1..MaxRuns : imgError(k)
    \/ \E k \in 1..MaxRuns : timeoutCallback(k)
    \/ \E k \in 1..MaxRuns : thenCallback(k)

SpecApp == InitApp /\ [][NextApp]_vars

\* Every pending callback is eventually run: an image loads or fails to,
\* a timer fires, a request is answered or fails, processPdf settles.  The
\* user's uploads and clicks are not required to happen.
Callbacks ==
    /\ WF_vars(processPdfSettled)
    /\ \A k \in 1..MaxRuns :
          /\ WF_vars(imgOnload(k) \/ imgError(k))
          /\ WF_vars(timeoutCallback(k))
          /\ WF_vars(thenCallback(k))

SpecAppFair == SpecApp /\ Callbacks

(***************************************************************************)
(* Vocabulary of the properties                                            *)
(***************************************************************************)
Returned == pc = "returned"

\* The sum of the count fields of a categories array
RECURSIVE SumCounts(_)
SumCounts(cats) == IF cats = <<>> THEN 0 ELSE Head(cats).count + SumCounts(Tail(cats))

CategorySum ==
    countWarm + countDarkGreen + countBlue + countNeonGreen + countGrey + countOther

\* The pixels the loop has been through, by number (0-based), and their bytes
Done == 0..((i \div 4) - 1)

Red(k) == At(4 * k)

Green(k) == At(4 * k + 1)

Blue(k) == At(4 * k + 2)

Alpha(k) == At(4 * k + 3)

\* The exclusion rule as the specification words it
ExcludedByRule(r, g, b, a) ==
    \/ a < 255
    \/ r = 255 /\ g = 0 /\ b = 255
    \/ r > 150 /\ b > 150 /\ g < 60

\* The counter of an exact-match colour, "" for any other colour
ExactCounter(r, g, b) ==
    IF <<r, g, b>> = <<0, 146, 69>> THEN "countDarkGreen"
    ELSE IF <<r, g, b>> = <<0, 0, 255>> THEN "countBlue"
    ELSE IF <<r, g, b>> = <<0, 255, 0>> THEN "countNeonGreen"
    ELSE IF <<r, g, b>> = <<77, 77, 77>> THEN "countGrey"
    ELSE ""

\* The step of the loop from this state adds 1 to counter c and leaves the
\* other six as they are
OnlyIncrements(c) ==
    /\ excludedPixels' = excludedPixels + (IF c = "excludedPixels" THEN 1 ELSE 0)
    /\ countDarkGreen' = countDarkGreen + (IF c = "countDarkGreen" THEN 1 ELSE 0)
    /\ countBlue' = countBlue + (IF c = "countBlue" THEN 1 ELSE 0)
    /\ countNeonGreen' = countNeonGreen + (IF c = "countNeonGreen" THEN 1 ELSE 0)
    /\ countGrey' = countGrey + (IF c = "countGrey" THEN 1 ELSE 0)
    /\ countWarm' = countWarm + (IF c = "countWarm" THEN 1 ELSE 0)
    /\ countOther' = countOther + (IF c = "countOther" THEN 1 ELSE 0)

\* A step that is one iteration of the pixel loop
Iterates == pc = "loop" /\ i' = i + 4

(***************************************************************************)
(* C1  Conservation: in every returned result excludedPixels plus the sum  *)
(* of the six category counts is totalPixels = width * height, and the sum *)
(* of the category counts is processedPixels = totalPixels -               *)
(* excludedPixels.                                                         *)
(***************************************************************************)
C1_Conservation ==
    Returned =>
        LET res == result[1]
        IN  /\ res.totalPixels = width * height
            /\ res.excludedPixels + SumCounts(res.categories) = res.totalPixels
            /\ res.processedPixels = res.totalPixels - res.excludedPixels
            /\ SumCounts(res.categories) = res.processedPixels

\* A returned result of three pixels: one excluded, one Warm, one Other
C1_Witness ==
    /\ Returned
    /\ result[1].totalPixels = 3
    /\ result[1].excludedPixels = 1
    /\ result[1].categories[1].count = 1
    /\ result[1].categories[6].count = 1

(***************************************************************************)
(* C2  A call whose buffer length is not width * height * 4 is rejected    *)
(* before any pixel is counted: it counts nothing and returns no result.   *)
(***************************************************************************)
C2_MalformedRejected ==
    Len(data) # width * height * 4 =>
        /\ result = <<>>
        /\ excludedPixels = 0
        /\ CategorySum = 0

(***************************************************************************)
(* C3  Opacity first: an iteration on a pixel whose alpha is below 255     *)
(* adds 1 to excludedPixels and nothing to any category, whatever its      *)
(* R, G, B are.                                                            *)
(***************************************************************************)
C3_OpacityFirst ==
    [][(Iterates /\ At(i + 3) \in 0..254) => OnlyIncrements("excludedPixels")]_vars

\* A translucent pixel of the Dark Green colour has been counted as excluded
C3_Witness ==
    /\ Returned
    /\ data = <<0, 146, 69, 254>>
    /\ excludedPixels = 1
    /\ CategorySum = 0

(***************************************************************************)
(* C4  A pixel is counted as excluded exactly when alpha < 255, or         *)
(* RGB = (255,0,255), or R > 150 and B > 150 and G < 60; excludedPixels is *)
(* the number of such pixels among those the loop has been through, and    *)
(* the categories hold the others.                                         *)
(***************************************************************************)
C4_ExcludedExactly ==
    /\ \A e \in counted :
          (e[5] = "excludedPixels") <=> ExcludedByRule(e[1], e[2], e[3], e[4])
    /\ excludedPixels =
          Cardinality({k \in Done : ExcludedByRule(Red(k), Green(k), Blue(k), Alpha(k))})
    /\ CategorySum =
          Cardinality({k \in Done : ~ExcludedByRule(Red(k), Green(k), Blue(k), Alpha(k))})

\* The opaque border pixel (200,10,200) has been counted as excluded
C4_Witness ==
    /\ Returned
    /\ data = <<200, 10, 200, 255>>
    /\ excludedPixels = 1
    /\ CategorySum = 0

(***************************************************************************)
(* C5  First match wins: an iteration on an opaque, non-excluded pixel of  *)
(* an exact-match colour adds 1 to that colour's counter and to no other,  *)
(* so never to Warm or Other.                                              *)
(***************************************************************************)
C5_ExactMatchWins ==
    [][(/\ Iterates
        /\ At(i + 3) = 255
        /\ ExactCounter(At(i), At(i + 1), At(i + 2)) # "")
       => OnlyIncrements(ExactCounter(At(i), At(i + 1), At(i + 2)))]_vars

\* The opaque pixel (0,0,255) has been counted as Blue and nowhere else
C5_Witness ==
    /\ Returned
    /\ data = <<0, 0, 255, 255>>
    /\ countBlue = 1
    /\ CategorySum = 1
    /\ excludedPixels = 0

(***************************************************************************)
(* HSV of an RGB triple of bytes in exact arithmetic (no rounding):        *)
(* hue = HueTimesD / d degrees with d = max - min, saturation = d / max,   *)
(* value = max / 255.                                                      *)
(***************************************************************************)
Max3(r, g, b) == IF r >= g /\ r >= b THEN r ELSE IF g >= b THEN g ELSE b

Min3(r, g, b) == IF r <= g /\ r <= b THEN r ELSE IF g <= b THEN g ELSE b

HueTimesD(r, g, b) ==
    LET max == Max3(r, g, b)
        d   == max - Min3(r, g, b)
    IN  IF max = r THEN 60 * ((g - b) + (IF g < b THEN 6 * d ELSE 0))
        ELSE IF max = g THEN 60 * ((b - r) + 2 * d)
        ELSE 60 * ((r - g) + 4 * d)

\* hue in [0, 75], saturation >= 0.55 = 11/20, value >= 0.35 = 7/20
InWarmBand(r, g, b) ==
    LET max == Max3(r, g, b)
        d   == max - Min3(r, g, b)
    IN  /\ d = 0 \/ (0 <= HueTimesD(r, g, b) /\ HueTimesD(r, g, b) <= 75 * d)
        /\ max # 0 /\ 20 * d >= 11 * max
        /\ 20 * max >= 7 * 255

\* The saturation is exactly 0.55 or the hue exactly 75 degrees
OnBandEdge(r, g, b) ==
    LET max == Max3(r, g, b)
        d   == max - Min3(r, g, b)
    IN  20 * d = 11 * max \/ (d # 0 /\ HueTimesD(r, g, b) = 75 * d)

\* An opaque pixel that is not excluded and has no exact-match colour
ReachesWarmTest(r, g, b, a) ==
    a = 255 /\ ~ExcludedByRule(r, g, b, a) /\ ExactCounter(r, g, b) = ""

(***************************************************************************)
(* C6  An opaque, non-excluded pixel that matches no exact colour is       *)
(* counted as Warm if and only if its hue is in [0, 75] degrees, its       *)
(* saturation at least 0.55 and its value at least 0.35, and as Other      *)
(* otherwise.                                                              *)
(***************************************************************************)
C6_WarmIffInBand ==
    \A e \in counted :
        ReachesWarmTest(e[1], e[2], e[3], e[4]) =>
            e[5] = (IF InWarmBand(e[1], e[2], e[3]) THEN "countWarm" ELSE "countOther")

\* C6 away from the edges of the band: where the saturation is not exactly
\* 0.55 and the hue not exactly 75 degrees, the code counts as C6 says.
C6_HoldsOffTheEdge ==
    \A e \in counted :
        (ReachesWarmTest(e[1], e[2], e[3], e[4]) /\ ~OnBandEdge(e[1], e[2], e[3])) =>
            e[5] = (IF InWarmBand(e[1], e[2], e[3]) THEN "countWarm" ELSE "countOther")

(***************************************************************************)
(* C7  The hue range does not wrap: an opaque, non-excluded pixel whose    *)
(* largest channel is R and whose G is below B (hue from 300 up to, not    *)
(* including, 360 degrees) is counted as Other, never as Warm.             *)
(***************************************************************************)
C7_NoWrap ==
    \A e \in counted :
        (/\ e[4] = 255
         /\ ~ExcludedByRule(e[1], e[2], e[3], e[4])
         /\ e[1] >= e[3]
         /\ e[2] < e[3])
        => e[5] = "countOther"

\* The opaque pixel (255,0,10), hue 357.6 degrees with saturation and value 1,
\* has been counted as Other
C7_Witness ==
    /\ Returned
    /\ data = <<255, 0, 10, 255>>
    /\ countOther = 1
    /\ countWarm = 0

(***************************************************************************)
(* C8  Percentage law.                                                     *)
(***************************************************************************)
\* 100 * count / n as one binary64 division of the exact product
Quotient100(count, n) == FDiv(ToFloat(100 * count), ToFloat(n))

\* |p - q| is at most two units in the last place of q (p - q is exact for
\* numbers this close)
WithinTwoUlps(p, q) ==
    LET diff == FSub(p, q)
    IN  \/ diff.m = WZero
        \/ diff.e + 53 <= q.e + 1
        \/ diff.e + 52 = q.e + 1 /\ diff.m = W2p52

\* C8 as claimed: every percentage equals 100 * count / max(processedPixels, 1)
C8_PercentageExact ==
    Returned =>
        LET res == result[1]
            n   == IF res.processedPixels > 1 THEN res.processedPixels ELSE 1
        IN  \A k \in 1..Len(res.categories) :
                res.categories[k].percentage = Quotient100(res.categories[k].count, n)

\* C8 amended: every percentage is a number, 0 when its count is 0 (so all
\* are 0 when processedPixels = 0), and otherwise within two units in the
\* last place of 100 * count / max(processedPixels, 1).
C8_PercentageLaw ==
    Returned =>
        LET res == result[1]
            n   == IF res.processedPixels > 1 THEN res.processedPixels ELSE 1
        IN  \A k \in 1..Len(res.categories) :
                LET p == res.categories[k].percentage
                    c == res.categories[k].count
                IN  /\ ~p.nan
                    /\ c = 0 => p = FZero
                    /\ res.processedPixels = 0 => p = FZero
                    /\ WithinTwoUlps(p, Quotient100(c, n))

\* One Warm pixel of three processed: the percentage is not the rounded quotient
C8_Witness ==
    /\ Returned
    /\ result[1].processedPixels = 3
    /\ result[1].categories[1].count = 1
    /\ result[1].categories[1].percentage # Quotient100(1, 3)

(***************************************************************************)
(* C9  The categories of every result are six, in the order Warm, Dark     *)
(* Green, Blue, Neon Green, Grey, Other, whatever the counts are.          *)
(***************************************************************************)
C9_FixedOrder ==
    Returned =>
        [k \in 1..Len(result[1].categories) |-> result[1].categories[k].id]
            = <<"warm", "dark_green", "blue", "neon_green", "grey", "other">>

\* A result whose Warm count is 0 and whose Grey and Other counts are 1 and 2
C9_Witness ==
    /\ Returned
    /\ result[1].categories[1].count = 0
    /\ result[1].categories[5].count = 1
    /\ result[1].categories[6].count = 2

(***************************************************************************)
(* C10  Totality and exclusivity: every iteration of the loop adds 1 to    *)
(* exactly one of the seven counters, and that counter is a function of    *)
(* the four bytes of its pixel: it is the one Classify gives for those     *)
(* bytes alone, and no pixel value is ever counted under two counters.     *)
(***************************************************************************)
Counters ==
    {"excludedPixels", "countDarkGreen", "countBlue", "countNeonGreen", "countGrey",
     "countWarm", "countOther"}

C10_OneCounterPerPixel ==
    [][Iterates =>
        /\ \E c \in Counters : OnlyIncrements(c)
        /\ OnlyIncrements(Classify(At(i), At(i + 1), At(i + 2), At(i + 3)))
        /\ \A e1, e2 \in counted' :
              <<e1[1], e1[2], e1[3], e1[4]>> = <<e2[1], e2[2], e2[3], e2[4]>> => e1[5] = e2[5]
      ]_vars

\* The same pixel counted at the first and the last position of a buffer,
\* around a different one
C10_Witness ==
    /\ Returned
    /\ data = <<0, 146, 69, 255, 0, 146, 69, 128, 0, 146, 69, 255>>
    /\ countDarkGreen = 2
    /\ excludedPixels = 1

(***************************************************************************)
(* C11  Order independence: the excluded count and the six category counts *)
(* returned for a bitmap are those of every permutation of its pixels, and *)
(* are the component-wise sum of the counts of the chunks of every         *)
(* partition of its pixels into contiguous chunks, each counted on its own.*)
(***************************************************************************)
\* The counters of the call, as one record
StateCounts ==
    [excludedPixels |-> excludedPixels, countWarm |-> countWarm,
     countDarkGreen |-> countDarkGreen, countBlue |-> countBlue,
     countNeonGreen |-> countNeonGreen, countGrey |-> countGrey,
     countOther |-> countOther]

\* The pixels of a buffer of whole pixels, in order
PixelsOf(buf) == [k \in 1..(Len(buf) \div 4) |-> SubSeq(buf, 4 * k - 3, 4 * k)]

Permutations(n) == {p \in [1..n -> 1..n] : \A j, k \in 1..n : p[j] = p[k] => j = k}

AddCounts(x, y) == [c \in DOMAIN x |-> x[c] + y[c]]

\* The sum of the counts of the chunks of px that start at the positions in
\* starts, each chunk running up to the next start (or the end of px)
RECURSIVE SumOfChunks(_, _)
SumOfChunks(px, starts) ==
    IF starts = {} THEN NoCounts
    ELSE LET s == CHOOSE x \in starts : \A y \in starts : x <= y
             rest == starts \ {s}
             e == IF rest = {} THEN Len(px)
                  ELSE (CHOOSE x \in rest : \A y \in rest : x <= y) - 1
         IN  AddCounts(PixelLoop(Flatten(SubSeq(px, s, e)), 0, NoCounts),
                       SumOfChunks(px, rest))

C11_OrderIndependent ==
    Returned =>
        LET px == PixelsOf(data)
            n  == Len(px)
        IN  /\ \A p \in Permutations(n) :
                  PixelLoop(Flatten([k \in 1..n |-> px[p[k]]]), 0, NoCounts) = StateCounts
            /\ \A cuts \in SUBSET (2..n) :
                  SumOfChunks(px, {1} \cup cuts) = StateCounts

\* A call has returned on three different pixels (excluded, Warm, Grey), so
\* that five of the six orders differ from the one counted, and both cuts
\* separate pixels of different counters
C11_Witness ==
    /\ Returned
    /\ data = <<0, 146, 69, 128, 200, 30, 30, 255, 77, 77, 77, 255>>
    /\ StateCounts = [NoCounts EXCEPT !.excludedPixels = 1, !.countWarm = 1, !.countGrey = 1]

(***************************************************************************)
(* C12  Purity: no step of a call changes width, height or a byte of the   *)
(* buffer; a call starts from counters at zero whatever the calls before   *)
(* it did; and every call on the same bitmap returns the result the calls  *)
(* before it returned.                                                     *)
(***************************************************************************)
C12_Pure ==
    /\ [][<<width, height, data>>' = <<width, height, data>>]_vars
    /\ []((pc = "loop" /\ i = 0) => StateCounts = NoCounts)
    /\ [](Returned => \A k \in 1..Len(earlier) : earlier[k] = result[1])

\* A second call on a bitmap of an excluded, a Warm and a Grey pixel has
\* returned, with the result of the first
C12_Witness ==
    /\ Returned
    /\ Len(earlier) = 1
    /\ data = <<0, 146, 69, 128, 200, 30, 30, 255, 77, 77, 77, 255>>
    /\ result[1].processedPixels = 2
    /\ earlier[1] = result[1]

(***************************************************************************)
(* C13  rgbToHsv is well defined on every (R,G,B) of bytes: no component   *)
(* of its return is NaN (in particular nothing is divided by zero), the    *)
(* hue is in [0, 360) and is 0 when max = min, the saturation is 0 when    *)
(* max = 0 and otherwise (max - min) / max of the channels divided by 255, *)
(* and the value is max / 255.                                             *)
(***************************************************************************)
F360 == FromInt(360)

\* The byte x normalised to [0, 1]
Normalised(x) == FDiv(FromInt(x), F255)

C13_WellDefined ==
    hsvResult # <<>> =>
        LET max == Max3(hsvArgs[1], hsvArgs[2], hsvArgs[3])
            min == Min3(hsvArgs[1], hsvArgs[2], hsvArgs[3])
            out == hsvResult[1]
        IN  /\ ~out.h.nan /\ ~out.s.nan /\ ~out.v.nan
            /\ FGeq(out.h, FZero) /\ FLess(out.h, F360)
            /\ max = min => FEq(out.h, FZero)
            /\ max = 0 => FEq(out.s, FZero)
            /\ max # 0 =>
                  FEq(out.s, FDiv(FSub(Normalised(max), Normalised(min)), Normalised(max)))
            /\ FGeq(out.s, FZero) /\ FLeq(out.s, FromInt(1))
            /\ FEq(out.v, Normalised(max))

\* rgbToHsv has returned for (255, 0, 1), the colour of largest hue: above
\* 359 degrees, with saturation 1
C13_Witness ==
    /\ hsvArgs = <<255, 0, 1>>
    /\ hsvResult # <<>>
    /\ FLess(FromInt(359), hsvResult[1].h)
    /\ FEq(hsvResult[1].s, FromInt(1))

(***************************************************************************)
(* C14  In the App, whenever analysisResult is not null it was computed    *)
(* from the image that is selected: an upload after runAnalysis started    *)
(* does not leave, or later bring back, the result of another image.       *)
(***************************************************************************)
C14_ResultOfSelectedImage ==
    analysisResult # <<>> =>
        /\ selectedImage # <<>>
        /\ analysisResult[1] = AnalysisOf(selectedImage[1])

(***************************************************************************)
(* C15  In the App, whenever isAnalyzing is true it is eventually false    *)
(* again, provided every pending callback is eventually run.               *)
(***************************************************************************)
C15_AnalyzingEnds == isAnalyzing ~> ~isAnalyzing

\* The runs whose image did not load or whose canvas gave no 2D context
Stuck == {k \in 1..Len(runs) : runs[k].stage \in {"failed", "noContext"}}

\* C15 apart from those two cases: while no run is stuck, isAnalyzing is
\* eventually false again (or a run gets stuck)
C15_EndsUnlessStuck == (isAnalyzing /\ Stuck = {}) ~> (~isAnalyzing \/ Stuck # {})

(***************************************************************************)
(* C16  In the App, when isGeminiThinking is false and there are an        *)
(* insight and a result, the insight is the one returned for that result;  *)
(* and isGeminiThinking is not false while the request of the latest run   *)
(* that made one is still pending.                                         *)
(***************************************************************************)
\* The runs whose request to Gemini has been made
Requested == {k \in 1..Len(runs) : runs[k].stage \in {"request", "done"}}

C16_InsightOfCurrentResult ==
    /\ (~isGeminiThinking /\ geminiInsight # <<>> /\ analysisResult # <<>>)
          => geminiInsight[1].about = analysisResult[1]
    /\ \A k \in Requested :
          ((\A j \in Requested : j <= k) /\ runs[k].stage = "request") => isGeminiThinking

====
